---- MODULE Spec2Model ----
(***************************************************************************)
(* Model of helmboot: the secret-manager kind resolver (package factory),  *)
(* the `secrets yaml` exporter (package secrets) and the boot runner       *)
(* (package run).  Strings that the code parses are sequences of           *)
(* one-character strings; names and tags are plain strings.                *)
(***************************************************************************)
EXTENDS Integers, Sequences, FiniteSets, TLC

VARIABLES pc, cmd, in, out, calls, fs, requirements, gitURL, flag, err, rounds

vars == <<pc, cmd, in, out, calls, fs, requirements, gitURL, flag, err, rounds>>

(* ---------------- bounds ---------------- *)
MaxLines == 2
MaxHelmLines == 2
MaxTailRounds == 2

(* ---------------- errors ---------------- *)
ErrNil == "nil"
ErrNotFound == "notfound"
ErrOther == "other"

IsNotFound(e) == e = ErrNotFound

ApiErrors == {ErrNil, ErrNotFound, ErrOther}
CallErrors == {ErrNil, ErrOther}

(* ---------------- names ---------------- *)
KindLocal == "local"
KindGoogleSecretManager == "google-secret-manager"
GKE == "gke"
LocalSecret == "jx-boot-secrets"
LocalSecretKey == <<"s", ".", "y">>

Providers == {GKE, "eks", "kubernetes"}
Kinds == {"", KindLocal, KindGoogleSecretManager, "vault"}

(* ---------------- requirements documents ---------------- *)
NilReq == [src |-> "nil", provider |-> ""]
Req(s, p) == [src |-> s, provider |-> p]

Call(op, e) == [op |-> op, err |-> e]

(* ======================= package factory ======================= *)

\* a mutant of resolveKind: the two outcomes of the marker lookup are swapped
resolveKindSwapped(provider, kubeErr, getErr) ==
    IF provider = GKE
    THEN IF kubeErr # ErrNil
         THEN [kind |-> "", err |-> "failed to create Kubernetes client",
               calls |-> <<Call("CreateKubeClient", kubeErr)>>]
         ELSE IF getErr # ErrNil
              THEN IF ~IsNotFound(getErr)
                   THEN [kind |-> "", err |-> "failed to get Secret",
                         calls |-> <<Call("CreateKubeClient", kubeErr), Call("Secrets.Get", getErr)>>]
                   ELSE [kind |-> KindLocal, err |-> ErrNil,
                         calls |-> <<Call("CreateKubeClient", kubeErr), Call("Secrets.Get", getErr)>>]
              ELSE [kind |-> KindGoogleSecretManager, err |-> ErrNil,
                    calls |-> <<Call("CreateKubeClient", kubeErr), Call("Secrets.Get", getErr)>>]
    ELSE [kind |-> KindLocal, err |-> ErrNil, calls |-> <<>>]

\* a mutant of resolveKind: the provider test is dropped, the cluster is always probed
resolveKindAlwaysProbe(provider, kubeErr, getErr) ==
    IF kubeErr # ErrNil
    THEN [kind |-> "", err |-> "failed to create Kubernetes client",
          calls |-> <<Call("CreateKubeClient", kubeErr)>>]
    ELSE IF getErr # ErrNil
         THEN IF ~IsNotFound(getErr)
              THEN [kind |-> "", err |-> "failed to get Secret",
                    calls |-> <<Call("CreateKubeClient", kubeErr), Call("Secrets.Get", getErr)>>]
              ELSE [kind |-> KindGoogleSecretManager, err |-> ErrNil,
                    calls |-> <<Call("CreateKubeClient", kubeErr), Call("Secrets.Get", getErr)>>]
         ELSE [kind |-> KindLocal, err |-> ErrNil,
               calls |-> <<Call("CreateKubeClient", kubeErr), Call("Secrets.Get", getErr)>>]

\* KindResolver.resolveKind: kubeErr is the result of Factory.CreateKubeClient,
\* getErr the result of Secrets(ns).Get(LocalSecret)
resolveKind(provider, kubeErr, getErr) ==
    IF provider = GKE
    THEN IF kubeErr # ErrNil
         THEN [kind |-> "", err |-> "failed to create Kubernetes client",
               calls |-> <<Call("CreateKubeClient", kubeErr)>>]
         ELSE IF getErr # ErrNil
              THEN IF ~IsNotFound(getErr)
                   THEN [kind |-> "", err |-> "failed to get Secret",
                         calls |-> <<Call("CreateKubeClient", kubeErr), Call("Secrets.Get", getErr)>>]
                   ELSE [kind |-> KindGoogleSecretManager, err |-> ErrNil,
                         calls |-> <<Call("CreateKubeClient", kubeErr), Call("Secrets.Get", getErr)>>]
              ELSE [kind |-> KindLocal, err |-> ErrNil,
                    calls |-> <<Call("CreateKubeClient", kubeErr), Call("Secrets.Get", getErr)>>]
    ELSE [kind |-> KindLocal, err |-> ErrNil, calls |-> <<>>]

(* Results of the calls the requirements resolution makes.                 *)
(* GetDevEnvironment: the Environment or nil, and an error.                *)
DevResults ==
    { [dev |-> TRUE, err |-> ErrNil], [dev |-> FALSE, err |-> ErrNil],
      [dev |-> FALSE, err |-> ErrNotFound], [dev |-> FALSE, err |-> ErrOther] }

(* GetRequirementsConfigFromTeamSettings: no requirements embedded gives   *)
(* (nil, nil); embedded and valid gives the document; embedded and         *)
(* unparseable gives an error, with nil or a partly filled document.       *)
TeamResults ==
    { [req |-> NilReq, err |-> ErrNil] }
    \cup { [req |-> Req("team", p), err |-> ErrNil] : p \in Providers }
    \cup { [req |-> NilReq, err |-> "unparseable"],
           [req |-> Req("partial", ""), err |-> "unparseable"] }

(* LoadRequirementsConfig(dir) *)
FileResults ==
    { [req |-> Req("file", p), err |-> ErrNil] : p \in Providers }
    \cup { [req |-> NilReq, err |-> ErrNil], [req |-> NilReq, err |-> ErrOther] }

\* a mutant of resolveRequirements: a missing 'dev' Environment is fatal
resolveRequirementsNoFallback(jxErr, devRes, teamRes, fileRes) ==
    IF jxErr # ErrNil
    THEN [req |-> NilReq, err |-> "failed to create JX Client",
          calls |-> <<Call("CreateJXClient", jxErr)>>]
    ELSE IF devRes.err # ErrNil
    THEN [req |-> NilReq, err |-> "failed to find the 'dev' Environment resource",
          calls |-> <<Call("CreateJXClient", jxErr), Call("GetDevEnvironment", devRes.err)>>]
    ELSE LET c0 == <<Call("CreateJXClient", jxErr), Call("GetDevEnvironment", devRes.err)>>
             c1 == IF devRes.dev
                   THEN Append(c0, Call("GetRequirementsConfigFromTeamSettings", teamRes.err))
                   ELSE c0
         IN IF devRes.dev /\ teamRes.err # ErrNil
            THEN [req |-> NilReq, err |-> "failed to unmarshal requirements from 'dev' Environment",
                  calls |-> c1]
            ELSE IF devRes.dev /\ teamRes.req # NilReq
            THEN [req |-> teamRes.req, err |-> ErrNil, calls |-> c1]
            ELSE IF fileRes.err # ErrNil
            THEN [req |-> fileRes.req, err |-> "failed to requirements YAML file",
                  calls |-> Append(c1, Call("LoadRequirementsConfig", fileRes.err))]
            ELSE [req |-> fileRes.req, err |-> ErrNil,
                  calls |-> Append(c1, Call("LoadRequirementsConfig", fileRes.err))]

\* KindResolver.resolveRequirements
resolveRequirements(jxErr, devRes, teamRes, fileRes) ==
    IF jxErr # ErrNil
    THEN [req |-> NilReq, err |-> "failed to create JX Client",
          calls |-> <<Call("CreateJXClient", jxErr)>>]
    ELSE IF devRes.err # ErrNil /\ ~IsNotFound(devRes.err)
    THEN [req |-> NilReq, err |-> "failed to find the 'dev' Environment resource",
          calls |-> <<Call("CreateJXClient", jxErr), Call("GetDevEnvironment", devRes.err)>>]
    ELSE LET c0 == <<Call("CreateJXClient", jxErr), Call("GetDevEnvironment", devRes.err)>>
             c1 == IF devRes.dev
                   THEN Append(c0, Call("GetRequirementsConfigFromTeamSettings", teamRes.err))
                   ELSE c0
         IN IF devRes.dev /\ teamRes.err # ErrNil
            THEN [req |-> NilReq, err |-> "failed to unmarshal requirements from 'dev' Environment",
                  calls |-> c1]
            ELSE IF devRes.dev /\ teamRes.req # NilReq
            THEN [req |-> teamRes.req, err |-> ErrNil, calls |-> c1]
            ELSE IF fileRes.err # ErrNil
            THEN [req |-> fileRes.req, err |-> "failed to requirements YAML file",
                  calls |-> Append(c1, Call("LoadRequirementsConfig", fileRes.err))]
            ELSE [req |-> fileRes.req, err |-> ErrNil,
                  calls |-> Append(c1, Call("LoadRequirementsConfig", fileRes.err))]

(* The inputs of one CreateSecretManager call: the resolver's Kind field   *)
(* and the results of the calls it makes.  A result that no path reads is  *)
(* left at its first value.                                                *)
SMInput(kind, jxErr, devRes, teamRes, fileRes, kubeErr, getErr, nsmErr) ==
    [kind |-> kind, jxErr |-> jxErr, devRes |-> devRes, teamRes |-> teamRes,
     fileRes |-> fileRes, kubeErr |-> kubeErr, getErr |-> getErr, nsmErr |-> nsmErr]

\* CreateSecretManager after the requirements were resolved (lines 34-49)
createFrom(i, rr, rk) ==
    IF rr.err # ErrNil
    THEN [sm |-> "nil", err |-> rr.err, kind |-> i.kind, calls |-> rr.calls]
    ELSE IF rr.req = NilReq
    THEN [sm |-> "nil", err |-> "failed to resolve the jx-requirements.yml",
          kind |-> i.kind, calls |-> rr.calls]
    ELSE IF i.kind = "" /\ rk.err # ErrNil
    THEN [sm |-> "nil", err |-> rk.err, kind |-> rk.kind, calls |-> rr.calls \o rk.calls]
    ELSE LET k == IF i.kind # "" THEN i.kind
                  ELSE IF rk.kind = "" THEN KindLocal ELSE rk.kind
             c == (IF i.kind = "" THEN rr.calls \o rk.calls ELSE rr.calls)
                  \o <<Call("NewSecretManager", i.nsmErr)>>
         IN [sm |-> IF i.nsmErr = ErrNil THEN k ELSE "nil",
             err |-> i.nsmErr, kind |-> k, calls |-> c]

\* a mutant of CreateSecretManager: the error of resolveKind is not checked
CreateSecretManagerIgnoreErr(i) ==
    LET rr == resolveRequirements(i.jxErr, i.devRes, i.teamRes, i.fileRes)
        rk == resolveKind(rr.req.provider, i.kubeErr, i.getErr)
    IN createFrom(i, rr, [rk EXCEPT !.err = ErrNil])

\* KindResolver.CreateSecretManager
CreateSecretManager(i) ==
    LET rr == resolveRequirements(i.jxErr, i.devRes, i.teamRes, i.fileRes)
        rk == resolveKind(rr.req.provider, i.kubeErr, i.getErr)
    IN createFrom(i, rr, rk)

(* ======================= package secrets ======================= *)

IsSpace(c) == c \in {" ", "\n"}

RECURSIVE TrimLeft(_)
TrimLeft(s) ==
    IF s = <<>> THEN s
    ELSE IF IsSpace(Head(s)) THEN TrimLeft(Tail(s)) ELSE s

RECURSIVE TrimRight(_)
TrimRight(s) ==
    IF s = <<>> THEN s
    ELSE IF IsSpace(s[Len(s)]) THEN TrimRight(SubSeq(s, 1, Len(s) - 1)) ELSE s

\* strings.TrimSpace
TrimSpace(s) == TrimRight(TrimLeft(s))

\* index of the first occurrence of the character sep in s, 0 if none
IndexOf(s, sep) ==
    IF \E i \in 1..Len(s) : s[i] = sep
    THEN CHOOSE i \in 1..Len(s) : s[i] = sep /\ \A j \in 1..(i - 1) : s[j] # sep
    ELSE 0

\* strings.Split(s, sep) for a one-character separator
RECURSIVE Split(_, _)
Split(s, sep) ==
    LET i == IndexOf(s, sep)
    IN IF i = 0 THEN <<s>>
       ELSE <<SubSeq(s, 1, i - 1)>> \o Split(SubSeq(s, i + 1, Len(s)), sep)

\* strings.SplitN(s, sep, 2)
SplitN2(s, sep) ==
    LET i == IndexOf(s, sep)
    IN IF i = 0 THEN <<s>>
       ELSE <<SubSeq(s, 1, i - 1), SubSeq(s, i + 1, Len(s))>>

\* strings.HasPrefix(s, c) for a one-character prefix
HasPrefix(s, c) == Len(s) > 0 /\ s[1] = c

\* strings.Join(lines, "\n")
RECURSIVE JoinLines(_)
JoinLines(lines) ==
    IF Len(lines) = 0 THEN <<>>
    ELSE IF Len(lines) = 1 THEN lines[1]
    ELSE lines[1] \o <<"\n">> \o JoinLines(Tail(lines))

(* Secret data: a map from keys to values, both strings *)
EmptyMap == [k \in {} |-> <<>>]
MapLen(m) == Cardinality(DOMAIN m)
MapGet(m, k) == IF k \in DOMAIN m THEN m[k] ELSE <<>>
MapPut(m, k, v) == [x \in (DOMAIN m) \cup {k} |-> IF x = k THEN v ELSE m[x]]

\* the loop of loadSecretFile over the lines of the file (lines 236-245)
RECURSIVE parseLines(_, _)
parseLines(lines, answer) ==
    IF lines = <<>> THEN answer
    ELSE LET line == TrimSpace(Head(lines))
             entry == SplitN2(line, ":")
         IN IF line = <<>> \/ HasPrefix(line, "#")
            THEN parseLines(Tail(lines), answer)
            ELSE IF Len(entry) = 2
            THEN parseLines(Tail(lines),
                            MapPut(answer, TrimSpace(entry[1]), TrimSpace(entry[2])))
            ELSE parseLines(Tail(lines), answer)

\* loadSecretFile: existsRes is the result of util.FileExists, readErr of ioutil.ReadFile
loadSecretFile(existsRes, readErr, text) ==
    IF existsRes = "error"
    THEN [data |-> EmptyMap, err |-> "failed to check if secret file exists",
          calls |-> <<Call("FileExists", ErrOther)>>]
    ELSE IF existsRes = "no"
    THEN [data |-> EmptyMap, err |-> "secret file does not exist",
          calls |-> <<Call("FileExists", ErrNil)>>]
    ELSE IF readErr # ErrNil
    THEN [data |-> EmptyMap, err |-> "failed to load secret file",
          calls |-> <<Call("FileExists", ErrNil), Call("ReadFile", readErr)>>]
    ELSE [data |-> parseLines(Split(text, "\n"), EmptyMap), err |-> ErrNil,
          calls |-> <<Call("FileExists", ErrNil), Call("ReadFile", readErr)>>]

(* A nested map is the set of its leaves <<path, value>>, a path being the *)
(* sequence of the keys from the root.                                     *)
IsPrefix(p, q) == Len(p) <= Len(q) /\ SubSeq(q, 1, Len(p)) = p

\* util.SetMapValueViaPath(m, path, value) with a dotted path
SetMapValueViaPath(m, path, value) ==
    LET p == Split(path, ".")
    IN { l \in m : ~IsPrefix(l[1], p) /\ ~IsPrefix(p, l[1]) } \cup { <<p, value>> }

\* the loop of generateSecretsYAML over the data, in the order the map yields its keys
RECURSIVE expandKeys(_, _, _)
expandKeys(secretData, order, secrets) ==
    IF order = <<>> THEN secrets
    ELSE expandKeys(secretData, Tail(order),
                    IF Head(order) \in DOMAIN secretData
                    THEN SetMapValueViaPath(secrets, Head(order), secretData[Head(order)])
                    ELSE secrets)

SecretsRoot == <<"s", "e", "c", "r", "e", "t", "s">>

\* values := map[string]interface{}{"secrets": secrets}
Values(secrets) == { <<(<<SecretsRoot>> \o l[1]), l[2]>> : l \in secrets }

(* The content of a file: raw bytes, or the YAML document of a nested map *)
NoContent == [kind |-> "none", bytes |-> <<>>, doc |-> {}]
Raw(b) == [kind |-> "raw", bytes |-> b, doc |-> {}]
\* yaml.Marshal(values)
Marshal(values) == [kind |-> "yaml", bytes |-> <<>>, doc |-> values]

Write(name, content, e) == [name |-> name, content |-> content, err |-> e]

\* a mutant of generateSecretsYAML: the raw-YAML key is never looked at
generateSecretsYAMLAlwaysExpand(fileName, secretData, order, marshalErr, writeErr) ==
    IF marshalErr # ErrNil
    THEN [err |-> "failed to marshal data to YAML", writes |-> <<>>]
    ELSE [err |-> IF writeErr # ErrNil THEN "failed to save file" ELSE ErrNil,
          writes |-> <<Write(fileName, Marshal(Values(expandKeys(secretData, order, {}))), writeErr)>>]

\* generateSecretsYAML
generateSecretsYAML(fileName, secretData, order, marshalErr, writeErr) ==
    LET data == MapGet(secretData, LocalSecretKey)
    IN IF Len(data) = 0
       THEN IF marshalErr # ErrNil
            THEN [err |-> "failed to marshal data to YAML", writes |-> <<>>]
            ELSE [err |-> IF writeErr # ErrNil THEN "failed to save file" ELSE ErrNil,
                  writes |-> <<Write(fileName,
                                     Marshal(Values(expandKeys(secretData, order, {}))),
                                     writeErr)>>]
       ELSE [err |-> IF writeErr # ErrNil THEN "failed to save file" ELSE ErrNil,
             writes |-> <<Write(fileName, Raw(data), writeErr)>>]

(* The part of YAMLOptions.Run that fetches the data (lines 175-209) *)
fetchData(i) ==
    LET secretFile == IF i.optSecretFile = "" THEN i.envSecretFile ELSE i.optSecretFile
        secretName == IF i.optSecretName # "" THEN i.optSecretName
                      ELSE IF i.envSecretName # "" THEN i.envSecretName
                      ELSE LocalSecret
    IN IF secretFile # ""
       THEN LET lf == loadSecretFile(i.existsRes, i.readErr, i.text)
            IN IF lf.err # ErrNil
               THEN [data |-> EmptyMap, err |-> lf.err, calls |-> lf.calls, source |-> secretFile]
               ELSE IF MapLen(lf.data) = 0
               THEN [data |-> lf.data, err |-> "no data for secret file", calls |-> lf.calls,
                     source |-> secretFile]
               ELSE [data |-> lf.data, err |-> ErrNil, calls |-> lf.calls, source |-> secretFile]
       ELSE IF i.getErr # ErrNil
       THEN [data |-> EmptyMap,
             err |-> IF IsNotFound(i.getErr) THEN "could not read Secret" ELSE "failed to read Secret",
             calls |-> <<Call("Secrets.Get", i.getErr)>>, source |-> secretName]
       ELSE IF MapLen(i.secretData) = 0
       THEN [data |-> i.secretData, err |-> "no data for Secret",
             calls |-> <<Call("Secrets.Get", i.getErr)>>, source |-> secretName]
       ELSE [data |-> i.secretData, err |-> ErrNil,
             calls |-> <<Call("Secrets.Get", i.getErr)>>, source |-> secretName]

\* YAMLOptions.Run once the data was fetched (lines 211-217)
exportData(i, order, fd) ==
    LET outFile == IF i.optOutFile = "" THEN i.envOutFile ELSE i.optOutFile
        c0 == <<Call("CreateKubeClient", i.kubeErr)>> \o fd.calls
    IN IF fd.err # ErrNil
       THEN [err |-> fd.err, writes |-> <<>>, calls |-> c0, data |-> fd.data,
             source |-> fd.source, outFile |-> i.optOutFile]
       ELSE IF outFile = ""
       THEN [err |-> "missing option: out", writes |-> <<>>, calls |-> c0, data |-> fd.data,
             source |-> fd.source, outFile |-> outFile]
       ELSE LET g == generateSecretsYAML(outFile, fd.data, order, i.marshalErr, i.writeErr)
            IN [err |-> g.err, writes |-> g.writes, calls |-> c0, data |-> fd.data,
                source |-> fd.source, outFile |-> outFile]

\* a mutant of YAMLOptions.Run: the emptiness of the fetched data is not checked
YAMLRunNoEmptyCheck(i, order) ==
    IF i.kubeErr # ErrNil
    THEN [err |-> "failed to create Kubernetes client", writes |-> <<>>,
          calls |-> <<Call("CreateKubeClient", i.kubeErr)>>, data |-> EmptyMap,
          source |-> "", outFile |-> i.optOutFile]
    ELSE LET fd == fetchData(i)
         IN exportData(i, order,
                       IF fd.err \in {"no data for secret file", "no data for Secret"}
                       THEN [fd EXCEPT !.err = ErrNil] ELSE fd)

\* YAMLOptions.Run
YAMLRun(i, order) ==
    IF i.kubeErr # ErrNil
    THEN [err |-> "failed to create Kubernetes client", writes |-> <<>>,
          calls |-> <<Call("CreateKubeClient", i.kubeErr)>>, data |-> EmptyMap,
          source |-> "", outFile |-> i.optOutFile]
    ELSE exportData(i, order, fetchData(i))

(* ---------------- inputs of the exporter ---------------- *)
FileLines ==
    { <<>>,
      <<"#", ":">>,
      <<"a", ":", "v">>,
      <<" ", "a", ".", "b", " ", ":", " ", "w", " ">>,
      <<"s", ".", "y", ":", "r", ":", "r">>,
      <<"s", ".", "y", ":">>,
      <<"a">> }

RECURSIVE LineSeqs(_)
LineSeqs(n) ==
    IF n = 0 THEN { <<>> }
    ELSE LineSeqs(n - 1) \cup { Append(ls, l) : ls \in LineSeqs(n - 1), l \in FileLines }

Texts == { JoinLines(ls) : ls \in LineSeqs(MaxLines) }

DataKeys == { LocalSecretKey, <<"a">>, <<"a", ".", "b">> }
DataValues == { <<>>, <<"v">> }
SecretDatas == UNION { [ks -> DataValues] : ks \in SUBSET DataKeys }

\* the orders in which ranging over a map can yield its keys
KeyOrders(m) ==
    { o \in [1..MapLen(m) -> DOMAIN m] : \A a, b \in 1..MapLen(m) : a # b => o[a] # o[b] }

SecretFileNames == {"", "secrets.txt"}
SecretNames == {"", "my-secret"}
OutNames == {"out.yaml", "env.yaml"}

(* ======================= package run ======================= *)

\* IsInCluster: cfgErr is the error of rest.InClusterConfig
IsInCluster(cfgErr) == cfgErr = ErrNil

\* a mutant of the test in HelmBootOptions.Run: both conditions are required
UseBootJobBoth(jobMode, cfgErr) == jobMode /\ ~IsInCluster(cfgErr)

\* the test of HelmBootOptions.Run (line 85)
UseBootJob(jobMode, cfgErr) == jobMode \/ ~IsInCluster(cfgErr)

ReleaseName == <<"j", "x", "-", "b", "o", "o", "t">>

\* HelmBootOptions.hasHelmRelease: text and listErr are the results of `helm list --short`
hasHelmRelease(text, listErr, releaseName) ==
    IF listErr # ErrNil
    THEN [flag |-> FALSE, err |-> "failed to run: helm list"]
    ELSE LET lines == Split(TrimSpace(text), "\n")
         IN [flag |-> \E k \in 1..Len(lines) : TrimSpace(lines[k]) = releaseName,
             err |-> ErrNil]

\* HelmBootOptions.findGitURLFromDir
findGitURLFromDir(confRes, discRes) ==
    IF confRes.err # ErrNil
    THEN [url |-> "", err |-> "there was a problem obtaining the git config dir",
          calls |-> <<Call("FindGitConfigDir", confRes.err)>>]
    ELSE IF confRes.dir = ""
    THEN [url |-> "", err |-> "no .git directory could be found",
          calls |-> <<Call("FindGitConfigDir", confRes.err)>>]
    ELSE [url |-> discRes.url, err |-> discRes.err,
          calls |-> <<Call("FindGitConfigDir", confRes.err),
                      Call("DiscoverUpstreamGitURL", discRes.err)>>]

\* HelmBootOptions.findRequirementsAndGitURL
findRequirementsAndGitURL(i) ==
    IF i.jxErr # ErrNil
    THEN [req |-> NilReq, gitURL |-> "", err |-> i.jxErr,
          calls |-> <<Call("CreateJXClient", i.jxErr)>>]
    ELSE IF i.devRes.err # ErrNil /\ ~IsNotFound(i.devRes.err)
    THEN [req |-> NilReq, gitURL |-> "", err |-> i.devRes.err,
          calls |-> <<Call("CreateJXClient", i.jxErr), Call("GetDevEnvironment", i.devRes.err)>>]
    ELSE LET c0 == <<Call("CreateJXClient", i.jxErr), Call("GetDevEnvironment", i.devRes.err)>>
             c1 == IF i.devRes.dev
                   THEN Append(c0, Call("GetRequirementsConfigFromTeamSettings", i.teamRes.err))
                   ELSE c0
             req1 == IF i.devRes.dev THEN i.teamRes.req ELSE NilReq
             url1 == IF i.optGitURL # "" THEN i.optGitURL
                     ELSE IF i.devRes.dev THEN i.devURL ELSE ""
             c2 == IF req1 = NilReq
                   THEN Append(c1, Call("LoadRequirementsConfig", i.fileRes.err))
                   ELSE c1
             req2 == IF req1 = NilReq THEN i.fileRes.req ELSE req1
         IN IF req1 = NilReq /\ i.fileRes.err # ErrNil
            THEN [req |-> req2, gitURL |-> url1, err |-> i.fileRes.err, calls |-> c2]
            ELSE IF url1 = ""
            THEN LET g == findGitURLFromDir(i.confRes, i.discRes)
                 IN [req |-> req2, gitURL |-> g.url, err |-> g.err, calls |-> c2 \o g.calls]
            ELSE [req |-> req2, gitURL |-> url1, err |-> ErrNil, calls |-> c2]

GitURLs == {"", "https://git/repo"}
ConfResults == { [dir |-> ".git", err |-> ErrNil], [dir |-> "", err |-> ErrNil],
                 [dir |-> "", err |-> ErrOther] }
DiscResults == { [url |-> "https://git/upstream", err |-> ErrNil], [url |-> "", err |-> ErrNil],
                 [url |-> "", err |-> ErrOther] }

HelmLines ==
    { <<>>,
      ReleaseName,
      <<" ">> \o ReleaseName \o <<" ">>,
      ReleaseName \o <<"2">>,
      <<"j", "x">> }

RECURSIVE HelmLineSeqs(_)
HelmLineSeqs(n) ==
    IF n = 0 THEN { <<>> }
    ELSE HelmLineSeqs(n - 1) \cup { Append(ls, l) : ls \in HelmLineSeqs(n - 1), l \in HelmLines }

HelmTexts == { JoinLines(ls) : ls \in HelmLineSeqs(MaxHelmLines) }

\* WaitForReadyPodForSelectorLabels: the name of a ready pod, or "", and an error
PodResults == { [pod |-> "jx-boot-pod", err |-> ErrNil], [pod |-> "", err |-> ErrNil],
                [pod |-> "", err |-> ErrOther] }

(* ======================= the state machine ======================= *)

Init ==
    /\ pc = "start"
    /\ cmd = "none"
    /\ in = <<>>
    /\ out = <<>>
    /\ calls = <<>>
    /\ fs = [n \in OutNames |-> NoContent]
    /\ requirements = NilReq
    /\ gitURL = ""
    /\ flag = FALSE
    /\ err = ErrNil
    /\ rounds = 0

locals == <<requirements, gitURL, flag, err, rounds>>

\* a call of KindResolver.resolveKind with a resolved requirements document
DoResolveKind ==
    /\ pc = "start"
    /\ \E provider \in Providers, kubeErr \in CallErrors, getErr \in ApiErrors :
         LET r == resolveKind(provider, kubeErr, getErr)
         IN /\ in' = [provider |-> provider, kubeErr |-> kubeErr, getErr |-> getErr]
            /\ out' = r
            /\ calls' = r.calls
    /\ cmd' = "resolveKind"
    /\ pc' = "done"
    /\ UNCHANGED <<fs, locals>>

\* a call of KindResolver.resolveRequirements
DoResolveRequirements ==
    /\ pc = "start"
    /\ \E jxErr \in CallErrors, devRes \in DevResults, teamRes \in TeamResults,
          fileRes \in FileResults :
         LET r == resolveRequirements(jxErr, devRes, teamRes, fileRes)
         IN /\ in' = [jxErr |-> jxErr, devRes |-> devRes, teamRes |-> teamRes,
                      fileRes |-> fileRes]
            /\ out' = r
            /\ calls' = r.calls
    /\ cmd' = "resolveRequirements"
    /\ pc' = "done"
    /\ UNCHANGED <<fs, locals>>

\* a call of KindResolver.CreateSecretManager
DoCreateSecretManager ==
    /\ pc = "start"
    /\ \E kind \in Kinds, jxErr \in CallErrors, devRes \in DevResults, teamRes \in TeamResults,
          fileRes \in FileResults, kubeErr \in CallErrors, getErr \in ApiErrors,
          nsmErr \in CallErrors :
         LET i == SMInput(kind, jxErr, devRes, teamRes, fileRes, kubeErr, getErr, nsmErr)
             r == CreateSecretManager(i)
         IN /\ in' = i
            /\ out' = r
            /\ calls' = r.calls
    /\ cmd' = "CreateSecretManager"
    /\ pc' = "done"
    /\ UNCHANGED <<fs, locals>>

\* ioutil.WriteFile for each write of a command, in order
RECURSIVE applyWrites(_, _)
applyWrites(files, writes) ==
    IF writes = <<>> THEN files
    ELSE applyWrites(IF Head(writes).err = ErrNil
                     THEN [files EXCEPT ![Head(writes).name] = Head(writes).content]
                     ELSE files,
                     Tail(writes))

\* the `secrets yaml` command: options, environment variables and the results of its calls
DoYAMLRun ==
    /\ pc = "start"
    /\ \E kubeErr \in CallErrors, optSecretFile \in SecretFileNames,
          envSecretFile \in SecretFileNames :
       LET useFile == kubeErr = ErrNil /\ (optSecretFile # "" \/ envSecretFile # "")
           useSecret == kubeErr = ErrNil /\ ~useFile
       IN \E existsRes \in (IF useFile THEN {"yes", "no", "error"} ELSE {"yes"}) :
          \E readErr \in (IF useFile /\ existsRes = "yes" THEN CallErrors ELSE {ErrNil}) :
          \E text \in (IF useFile /\ existsRes = "yes" /\ readErr = ErrNil
                       THEN Texts ELSE {<<>>}) :
          \E optSecretName \in (IF useSecret THEN SecretNames ELSE {""}) :
          \E envSecretName \in (IF useSecret THEN SecretNames ELSE {""}) :
          \E getErr \in (IF useSecret THEN ApiErrors ELSE {ErrNil}) :
          \E secretData \in (IF useSecret /\ getErr = ErrNil THEN SecretDatas ELSE {EmptyMap}) :
          LET i0 == [kubeErr |-> kubeErr, optSecretFile |-> optSecretFile,
                     envSecretFile |-> envSecretFile, existsRes |-> existsRes,
                     readErr |-> readErr, text |-> text, optSecretName |-> optSecretName,
                     envSecretName |-> envSecretName, getErr |-> getErr,
                     secretData |-> secretData]
          IN \E optOutFile \in (IF kubeErr = ErrNil THEN {"", "out.yaml"} ELSE {""}) :
             \E envOutFile \in (IF kubeErr = ErrNil THEN {"", "env.yaml"} ELSE {""}) :
             \E marshalErr \in (IF optOutFile # "" \/ envOutFile # ""
                                THEN CallErrors ELSE {ErrNil}) :
             \E writeErr \in (IF optOutFile # "" \/ envOutFile # ""
                              THEN CallErrors ELSE {ErrNil}) :
             \E order \in (IF kubeErr = ErrNil THEN KeyOrders(fetchData(i0).data) ELSE {<<>>}) :
               LET i == [kubeErr |-> kubeErr, optSecretFile |-> optSecretFile,
                         envSecretFile |-> envSecretFile, existsRes |-> existsRes,
                         readErr |-> readErr, text |-> text, optSecretName |-> optSecretName,
                         envSecretName |-> envSecretName, getErr |-> getErr,
                         secretData |-> secretData, optOutFile |-> optOutFile,
                         envOutFile |-> envOutFile, marshalErr |-> marshalErr,
                         writeErr |-> writeErr]
                   r == YAMLRun(i, order)
               IN /\ in' = i
                  /\ out' = r
                  /\ calls' = r.calls
                  /\ fs' = applyWrites(fs, r.writes)
    /\ cmd' = "yaml"
    /\ pc' = "done"
    /\ UNCHANGED locals

Return(e) == pc' = "done" /\ out' = [err |-> e]

\* HelmBootOptions.Run: the boot Job path, or the boot in this process (bo.Run)
DoRun ==
    /\ pc = "start"
    /\ cmd' = "run"
    /\ \E jobMode \in BOOLEAN, cfgErr \in CallErrors :
         /\ in' = [jobMode |-> jobMode, cfgErr |-> cfgErr, find |-> <<>>, helmText |-> <<>>]
         /\ IF UseBootJob(jobMode, cfgErr)
            THEN /\ calls' = <<Call("RunBootJob", ErrNil)>>
                 /\ pc' = "findRequirementsAndGitURL"
                 /\ out' = out
            ELSE \E e \in CallErrors :
                   /\ calls' = <<Call("BootOptions.Run", e)>>
                   /\ Return(e)
    /\ UNCHANGED <<fs, locals>>

(* ---------------- RunBootJob, one action per step ---------------- *)

\* RunBootJob lines 99-107: resolve the requirements and the git URL
StepFindRequirementsAndGitURL ==
    /\ pc = "findRequirementsAndGitURL"
    /\ \E jxErr \in CallErrors :
       \E devRes \in (IF jxErr = ErrNil THEN DevResults ELSE {[dev |-> FALSE, err |-> ErrNil]}) :
       \E teamRes \in (IF devRes.dev THEN TeamResults ELSE {[req |-> NilReq, err |-> ErrNil]}) :
       \E devURL \in (IF devRes.dev THEN GitURLs ELSE {""}) :
       \E optGitURL \in (IF jxErr = ErrNil /\ devRes.err # ErrOther THEN GitURLs ELSE {""}) :
       \E fileRes \in (IF jxErr = ErrNil /\ devRes.err # ErrOther /\ teamRes.req = NilReq
                       THEN FileResults ELSE {[req |-> NilReq, err |-> ErrNil]}) :
       \E confRes \in (IF jxErr = ErrNil /\ devRes.err # ErrOther /\ optGitURL = ""
                          /\ devURL = "" /\ ~(teamRes.req = NilReq /\ fileRes.err # ErrNil)
                       THEN ConfResults ELSE {[dir |-> "", err |-> ErrNil]}) :
       \E discRes \in (IF confRes.dir # "" THEN DiscResults ELSE {[url |-> "", err |-> ErrNil]}) :
         LET i == [jxErr |-> jxErr, devRes |-> devRes, teamRes |-> teamRes,
                   devURL |-> devURL, optGitURL |-> optGitURL, fileRes |-> fileRes,
                   confRes |-> confRes, discRes |-> discRes]
             r == findRequirementsAndGitURL(i)
         IN /\ calls' = calls \o r.calls
            /\ in' = [in EXCEPT !.find = i]
            /\ requirements' = r.req
            /\ gitURL' = r.gitURL
            /\ IF r.err # ErrNil THEN Return(r.err)
               ELSE IF r.gitURL = "" THEN Return("missing option: git-url")
               ELSE IF r.req = NilReq
               THEN pc' = "panic" /\ out' = [err |-> "nil pointer dereference"]
               ELSE pc' = "TempDir" /\ out' = out
    /\ UNCHANGED <<cmd, fs, flag, err, rounds>>

\* RunBootJob lines 111-114: ioutil.TempDir
StepTempDir ==
    /\ pc = "TempDir"
    /\ \E e \in CallErrors :
         /\ calls' = Append(calls, Call("TempDir", e))
         /\ IF e # ErrNil THEN Return("failed to create temp dir")
            ELSE pc' = "Clone" /\ out' = out
    /\ UNCHANGED <<cmd, in, fs, locals>>

\* a mutant of the clone step: the error of git clone is not checked
StepGitCloneUnchecked ==
    /\ pc = "Clone"
    /\ \E e \in CallErrors :
         /\ calls' = Append(calls, Call("git clone", e))
         /\ pc' = "hasHelmRelease" /\ out' = out
    /\ UNCHANGED <<cmd, in, fs, locals>>

\* RunBootJob lines 116-121: clone the installer repository
StepGitClone ==
    /\ pc = "Clone"
    /\ \E e \in CallErrors :
         /\ calls' = Append(calls, Call("git clone", e))
         /\ IF e # ErrNil THEN Return("failed to git clone")
            ELSE pc' = "hasHelmRelease" /\ out' = out
    /\ UNCHANGED <<cmd, in, fs, locals>>

\* RunBootJob lines 123-127: list the helm releases
StepHasHelmRelease ==
    /\ pc = "hasHelmRelease"
    /\ \E e \in CallErrors :
       \E text \in (IF e = ErrNil THEN HelmTexts ELSE {<<>>}) :
         LET r == hasHelmRelease(text, e, ReleaseName)
         IN /\ calls' = Append(calls, Call("helm list", e))
            /\ in' = [in EXCEPT !.helmText = text]
            /\ flag' = r.flag
            /\ IF r.err # ErrNil THEN Return(r.err)
               ELSE IF r.flag THEN pc' = "uninstall" /\ out' = out
               ELSE pc' = "boot" /\ out' = out
    /\ UNCHANGED <<cmd, fs, requirements, gitURL, err, rounds>>

\* RunBootJob lines 127-138: uninstall the old jx-boot chart
StepHelmUninstall ==
    /\ pc = "uninstall"
    /\ flag
    /\ \E e \in CallErrors :
         /\ calls' = Append(calls, Call("helm uninstall", e))
         /\ IF e # ErrNil THEN Return("failed to remove old jx-boot chart")
            ELSE pc' = "boot" /\ out' = out
    /\ UNCHANGED <<cmd, in, fs, locals>>

\* RunBootJob lines 140-150: run the boot command
StepBootCommand ==
    /\ pc = "boot"
    /\ \E e \in CallErrors :
         /\ calls' = Append(calls, Call("boot command", e))
         /\ IF e # ErrNil THEN Return("failed to run command")
            ELSE pc' = "tailJobLogs" /\ out' = out
    /\ UNCHANGED <<cmd, in, fs, locals>>

\* tailJobLogs lines 156-160: create the Kubernetes client
StepCreateKubeClient ==
    /\ pc = "tailJobLogs"
    /\ \E e \in CallErrors :
         /\ calls' = Append(calls, Call("CreateKubeClient", e))
         /\ err' = e
         /\ IF e # ErrNil THEN Return(e)
            ELSE pc' = "WaitForReadyPod" /\ out' = out
    /\ UNCHANGED <<cmd, in, fs, requirements, gitURL, flag, rounds>>

\* tailJobLogs lines 167-178: the head of the loop and the pod discovery
StepWaitForReadyPod ==
    /\ pc = "WaitForReadyPod"
    /\ rounds < MaxTailRounds
    /\ IF err # ErrNil
       THEN Return(err) /\ UNCHANGED <<calls, err, rounds>>
       ELSE \E r \in PodResults :
              /\ calls' = Append(calls, Call("WaitForReadyPodForSelectorLabels", r.err))
              /\ err' = r.err
              /\ rounds' = rounds + 1
              /\ IF r.err # ErrNil THEN Return(r.err)
                 ELSE IF r.pod = "" THEN Return("No pod found")
                 ELSE pc' = "TailLogs" /\ out' = out
    /\ UNCHANGED <<cmd, in, fs, requirements, gitURL, flag>>

\* tailJobLogs lines 179-182: tail the container log until TailLogs returns
StepTailLogs ==
    /\ pc = "TailLogs"
    /\ \E e \in CallErrors :
         /\ calls' = Append(calls, Call("TailLogs", e))
         /\ err' = e
         /\ IF e # ErrNil THEN Return(ErrNil)
            ELSE pc' = "WaitForReadyPod" /\ out' = out
    /\ UNCHANGED <<cmd, in, fs, requirements, gitURL, flag, rounds>>

Next ==
    \/ DoResolveKind
    \/ DoResolveRequirements
    \/ DoCreateSecretManager
    \/ DoYAMLRun
    \/ DoRun
    \/ StepFindRequirementsAndGitURL
    \/ StepTempDir
    \/ StepGitClone
    \/ StepHasHelmRelease
    \/ StepHelmUninstall
    \/ StepBootCommand
    \/ StepCreateKubeClient
    \/ StepWaitForReadyPod
    \/ StepTailLogs

Spec == Init /\ [][Next]_vars

(* ======================= properties ======================= *)

HasCall(op) == \E k \in 1..Len(calls) : calls[k].op = op
CallsOf(op) == { k \in 1..Len(calls) : calls[k].op = op }

\* C1: for a GKE requirements document and a Kubernetes client that could be
\* created, resolveKind returns the google-secret-manager kind exactly when the
\* lookup of the marker secret answers 'not found'; when the secret exists it
\* returns the local kind
C1_ResolveKindGKE ==
    (cmd = "resolveKind" /\ in.provider = GKE /\ in.kubeErr = ErrNil)
    => /\ (out.kind = KindGoogleSecretManager /\ out.err = ErrNil) <=> in.getErr = ErrNotFound
       /\ out.kind = KindGoogleSecretManager <=> in.getErr = ErrNotFound
       /\ in.getErr = ErrNil => (out.kind = KindLocal /\ out.err = ErrNil)

C1_Witness ==
    /\ cmd = "resolveKind" /\ in.provider = GKE /\ in.kubeErr = ErrNil
    /\ in.getErr = ErrNotFound
    /\ out.kind = KindGoogleSecretManager

\* C2: for every provider other than GKE, resolveKind returns the local kind
\* and no error, whatever the cluster would answer
C2_ResolveKindOtherProvider ==
    (cmd = "resolveKind" /\ in.provider # GKE)
    => (out.kind = KindLocal /\ out.err = ErrNil)

C2_Witness ==
    /\ cmd = "resolveKind" /\ in.provider = "eks"
    /\ in.kubeErr = ErrOther /\ in.getErr = ErrOther
    /\ out.kind = KindLocal

\* C3: with no kind supplied, when the creation of the Kubernetes client or the
\* lookup of the marker secret fails with an error other than 'not found',
\* CreateSecretManager returns an error and no secret manager, does not call
\* NewSecretManager and does not default the kind to local
KindProbeFailed ==
    \E k \in 1..Len(calls) :
        /\ calls[k].op \in {"CreateKubeClient", "Secrets.Get"}
        /\ calls[k].err = ErrOther

C3_ProbeErrorIsFatal ==
    (cmd = "CreateSecretManager" /\ in.kind = "" /\ KindProbeFailed)
    => /\ out.err # ErrNil
       /\ out.sm = "nil"
       /\ ~HasCall("NewSecretManager")
       /\ out.kind # KindLocal

C3_Witness ==
    /\ cmd = "CreateSecretManager" /\ in.kind = ""
    /\ in.kubeErr = ErrNil /\ in.getErr = ErrOther
    /\ HasCall("Secrets.Get")
    /\ out.err # ErrNil

(* The requirements of the 'dev' Environment are absent: the Environment   *)
(* was not found, or it embeds no requirements.                            *)
Absent(devRes, teamRes) ==
    \/ devRes.err = ErrNotFound
    \/ devRes.err = ErrNil /\ ~devRes.dev
    \/ devRes.err = ErrNil /\ devRes.dev /\ teamRes.err = ErrNil /\ teamRes.req = NilReq

Unparseable(devRes, teamRes) ==
    devRes.err = ErrNil /\ devRes.dev /\ teamRes.err # ErrNil

\* the file was loaded, after the 'dev' Environment was looked up
FellBackToFile ==
    /\ Cardinality(CallsOf("LoadRequirementsConfig")) = 1
    /\ \E g \in CallsOf("GetDevEnvironment") :
         \A l \in CallsOf("LoadRequirementsConfig") : g < l

FoundRequirements == cmd = "run" /\ in.find # <<>>

\* C4 as stated: in both implementations, absent or unparseable requirements of
\* the 'dev' Environment lead to loading the requirements file, not to a failure
C4_FallbackAlways ==
    /\ (cmd = "resolveRequirements" /\ in.jxErr = ErrNil
        /\ (Absent(in.devRes, in.teamRes) \/ Unparseable(in.devRes, in.teamRes)))
       => (FellBackToFile /\ (out.err # ErrNil => in.fileRes.err # ErrNil))
    /\ (FoundRequirements /\ in.find.jxErr = ErrNil
        /\ (Absent(in.find.devRes, in.find.teamRes)
            \/ Unparseable(in.find.devRes, in.find.teamRes)))
       => FellBackToFile

\* C4 amended: both implementations look the 'dev' Environment up first and
\* load the requirements file when its requirements are absent; when they are
\* unparseable, resolveRequirements returns the error without loading the file,
\* and findRequirementsAndGitURL does not fail but loads the file exactly when
\* the parse left no requirements
C4_FallbackWhenAbsent ==
    /\ (cmd = "resolveRequirements" /\ in.jxErr = ErrNil /\ Absent(in.devRes, in.teamRes))
       => /\ FellBackToFile
          /\ out.req = in.fileRes.req
          /\ out.err # ErrNil <=> in.fileRes.err # ErrNil
    /\ (cmd = "resolveRequirements" /\ in.jxErr = ErrNil /\ Unparseable(in.devRes, in.teamRes))
       => (out.err # ErrNil /\ ~HasCall("LoadRequirementsConfig"))
    /\ (FoundRequirements /\ in.find.jxErr = ErrNil
        /\ Absent(in.find.devRes, in.find.teamRes))
       => (FellBackToFile /\ requirements = in.find.fileRes.req)
    /\ (FoundRequirements /\ in.find.jxErr = ErrNil
        /\ Unparseable(in.find.devRes, in.find.teamRes))
       => /\ HasCall("LoadRequirementsConfig") <=> in.find.teamRes.req = NilReq
          /\ HasCall("LoadRequirementsConfig") => FellBackToFile
          /\ ~(pc = "done" /\ out.err = in.find.teamRes.err)

C4_Witness ==
    /\ cmd = "resolveRequirements" /\ in.jxErr = ErrNil
    /\ Unparseable(in.devRes, in.teamRes)
    /\ out.err # ErrNil
    /\ ~HasCall("LoadRequirementsConfig")

(* what the exporter wrote *)
Wrote == cmd = "yaml" /\ out.writes # <<>>
Written == out.writes[1].content

\* the nested maps the expansion of the data can give, under the `secrets` root
Expansions(d) == { Values(expandKeys(d, o, {})) : o \in KeyOrders(d) }

\* C5 as stated: when the fetched data contains the raw-YAML key the bytes
\* written are exactly its value, otherwise the expansion of every key under
\* the `secrets` root is written
C5_RawKeyPresent ==
    Wrote
    => /\ LocalSecretKey \in DOMAIN out.data => Written = Raw(out.data[LocalSecretKey])
       /\ LocalSecretKey \notin DOMAIN out.data
          => (Written.kind = "yaml" /\ Written.doc \in Expansions(out.data))

\* C5 amended: when the fetched data contains the raw-YAML key with a non-empty
\* value the bytes written are exactly that value; otherwise (key absent, or
\* present with an empty value) the expansion of every key under the `secrets`
\* root is written; one write, of one shape
C5_RawKeyNonEmpty ==
    Wrote
    => /\ Len(out.writes) = 1
       /\ (LocalSecretKey \in DOMAIN out.data /\ out.data[LocalSecretKey] # <<>>)
          => Written = Raw(out.data[LocalSecretKey])
       /\ (LocalSecretKey \notin DOMAIN out.data \/ MapGet(out.data, LocalSecretKey) = <<>>)
          => /\ Written.kind = "yaml"
             /\ Written.bytes = <<>>
             /\ Written.doc \in Expansions(out.data)
             /\ \A l \in Written.doc : l[1][1] = SecretsRoot
             /\ \A k \in DOMAIN out.data :
                  \E l \in Written.doc :
                     \/ IsPrefix(l[1], <<SecretsRoot>> \o Split(k, "."))
                     \/ IsPrefix(<<SecretsRoot>> \o Split(k, "."), l[1])
       /\ out.writes[1].err = ErrNil => fs[out.writes[1].name] = Written

C5_Witness ==
    /\ Wrote
    /\ LocalSecretKey \in DOMAIN out.data
    /\ out.data[LocalSecretKey] = <<>>
    /\ Written.kind = "yaml"
    /\ fs[out.outFile] = Written

(* the cases of C6, read from the inputs *)
SecretFileOf(i) == IF i.optSecretFile = "" THEN i.envSecretFile ELSE i.optSecretFile

\* no line of the text is a key/value entry
NoEntries(text) ==
    LET lines == Split(text, "\n")
    IN \A k \in 1..Len(lines) :
         LET line == TrimSpace(lines[k])
         IN line = <<>> \/ line[1] = "#" \/ \A c \in 1..Len(line) : line[c] # ":"

NoWrite == out.writes = <<>> /\ \A n \in OutNames : fs[n] = NoContent

\* C6: the `secrets yaml` command fails and writes nothing when the secret file
\* does not exist or yields no entries, when the Secret is not found or has no
\* data, and when no output path is set; it writes only after it got non-empty
\* data and a non-empty output path
C6_FailsWithoutWrite ==
    cmd = "yaml"
    => /\ (in.kubeErr = ErrNil /\ SecretFileOf(in) # "" /\ in.existsRes = "no")
          => (out.err # ErrNil /\ NoWrite)
       /\ (in.kubeErr = ErrNil /\ SecretFileOf(in) # "" /\ in.existsRes = "yes"
           /\ in.readErr = ErrNil /\ NoEntries(in.text))
          => (out.err # ErrNil /\ NoWrite)
       /\ (in.kubeErr = ErrNil /\ SecretFileOf(in) = ""
           /\ (in.getErr = ErrNotFound \/ DOMAIN in.secretData = {}))
          => (out.err # ErrNil /\ NoWrite)
       /\ (in.optOutFile = "" /\ in.envOutFile = "") => (out.err # ErrNil /\ NoWrite)
       /\ out.writes # <<>>
          => /\ DOMAIN out.data # {}
             /\ out.outFile # ""
             /\ out.writes[1].name = out.outFile
       /\ out.writes = <<>> => \A n \in OutNames : fs[n] = NoContent

C6_Witness ==
    /\ cmd = "yaml" /\ in.kubeErr = ErrNil
    /\ SecretFileOf(in) # "" /\ in.existsRes = "yes" /\ in.readErr = ErrNil
    /\ in.text # <<>> /\ NoEntries(in.text)
    /\ out.err = "no data for secret file"
    /\ NoWrite

\* C7 as stated: once a ready pod was found and its log stream ends (TailLogs
\* returns), tailJobLogs returns nil and does not go back to pod discovery
C7_StreamEndTerminates ==
    [][pc = "TailLogs" => (pc' = "done" /\ out'.err = ErrNil)]_vars

(* the calls of the boot Job path whose failure is not 'not found'; the parse *)
(* of the team settings is left out, its failure drives the fallback          *)
FailedStep ==
    \E k \in 1..Len(calls) :
        /\ calls[k].op # "GetRequirementsConfigFromTeamSettings"
        /\ calls[k].err \notin {ErrNil, ErrNotFound}

\* C8 as stated: when a step of RunBootJob, tailJobLogs included, fails with an
\* error other than 'not found', RunBootJob returns a non-nil error
C8_ErrorsPropagate ==
    (cmd = "run" /\ pc = "done" /\ calls[1].op = "RunBootJob" /\ FailedStep)
    => out.err # ErrNil

\* C9: Run takes the boot Job path exactly when --job is set or the process is
\* not inside a cluster, the in-process boot exactly when the flag is unset and
\* the process is inside a cluster, and exactly one of the two per invocation
C9_RunDispatch ==
    cmd = "run"
    => /\ HasCall("RunBootJob") <=> (in.jobMode \/ in.cfgErr # ErrNil)
       /\ HasCall("BootOptions.Run") <=> (~in.jobMode /\ in.cfgErr = ErrNil)
       /\ Cardinality(CallsOf("RunBootJob") \cup CallsOf("BootOptions.Run")) = 1
       /\ HasCall("BootOptions.Run") => (pc = "done" /\ Len(calls) = 1)

C9_Witness ==
    /\ cmd = "run" /\ in.jobMode /\ in.cfgErr = ErrNil
    /\ HasCall("RunBootJob")
    /\ ~HasCall("BootOptions.Run")
    /\ pc = "TempDir"

(* the position of a call in the order of the steps of RunBootJob *)
StepRank(op) ==
    CASE op = "RunBootJob" -> 0
      [] op \in {"CreateJXClient", "GetDevEnvironment", "GetRequirementsConfigFromTeamSettings",
                 "LoadRequirementsConfig", "FindGitConfigDir", "DiscoverUpstreamGitURL"} -> 1
      [] op = "TempDir" -> 2
      [] op = "git clone" -> 3
      [] op = "helm list" -> 4
      [] op = "helm uninstall" -> 5
      [] op = "boot command" -> 6
      [] OTHER -> 7

Subprocesses == {"git clone", "helm list", "helm uninstall", "boot command"}

\* the release list has a line that is the release name
ListContains(text, name) ==
    \E a, b \in 0..Len(text) :
        /\ a < b
        /\ TrimSpace(SubSeq(text, a + 1, b)) = name
        /\ \A c \in (a + 1)..b : text[c] # "\n"
        /\ a = 0 \/ text[a] = "\n"
        /\ b = Len(text) \/ text[b + 1] = "\n"

\* C10: RunBootJob runs its steps in the order requirements and git URL, clone,
\* helm list, helm uninstall (only if jx-boot is listed), boot command, tail; a
\* step runs only after every earlier step succeeded; nothing is cloned or run
\* without requirements and a git URL; a failing subprocess ends the run with
\* its error
C10_StepOrder ==
    (cmd = "run" /\ HasCall("RunBootJob"))
    => /\ \A a, b \in 1..Len(calls) :
            a < b => /\ StepRank(calls[a].op) <= StepRank(calls[b].op)
                     /\ (StepRank(calls[a].op) \in 2..6 /\ StepRank(calls[b].op) > 1)
                        => (calls[a].err = ErrNil /\ StepRank(calls[a].op) < StepRank(calls[b].op))
       /\ \A b \in 1..Len(calls) :
            /\ StepRank(calls[b].op) > 1 => (requirements # NilReq /\ gitURL # "")
            /\ StepRank(calls[b].op) \in {3, 4, 7}
               => \E a \in 1..(b - 1) : StepRank(calls[a].op) = StepRank(calls[b].op) - 1
                                        \/ StepRank(calls[a].op) = 7
            /\ StepRank(calls[b].op) \in {5, 6} => HasCall("helm list")
            /\ StepRank(calls[b].op) = 7 => HasCall("boot command")
            /\ (calls[b].op \in Subprocesses /\ calls[b].err # ErrNil)
               => (b = Len(calls) /\ pc = "done" /\ out.err # ErrNil)
       /\ HasCall("helm uninstall") <=>
            (HasCall("helm list") /\ pc # "uninstall" /\ ListContains(in.helmText, ReleaseName))
       /\ HasCall("boot command")
          => (HasCall("helm uninstall") <=> ListContains(in.helmText, ReleaseName))

C10_Witness ==
    /\ cmd = "run" /\ pc = "done"
    /\ HasCall("helm uninstall")
    /\ HasCall("TailLogs")
    /\ Cardinality(CallsOf("WaitForReadyPodForSelectorLabels")) = 2

====
